---- MODULE Spec2Model ----
(***************************************************************************)
(* nominal-garmin: fit_to_pandas (the FIT frame stream to table decoder)   *)
(* and push (decode and upload every entry of a downloaded archive), as    *)
(* written in src/nominal-garmin/__main__.py.                              *)
(*                                                                         *)
(* Names (frame names, field names) are sequences of their underscore      *)
(* separated words, so that str.find("unknown") is a search and not a      *)
(* table lookup.  Numbers are exact dyadic rationals m * 2^e with m odd    *)
(* (or 0): Python's integers are unbounded, and 2^31 is no 32-bit integer.  *)
(***************************************************************************)
EXTENDS Integers, Sequences, FiniteSets, TLC

VARIABLES frames, good_list, list_check, df_activity, pc, err, result,
          entries, entry, decoded, uploads, ppc

fitVars == <<frames, good_list, list_check, df_activity, pc, err, result>>
pushVars == <<entries, entry, decoded, uploads, ppc>>
vars == <<frames, good_list, list_check, df_activity, pc, err, result,
          entries, entry, decoded, uploads, ppc>>

\* ---------------------------------------------------------------- bounds
\* Frames the reader yields in one stream, and the fields they carry in all.
MaxFrames == 2
MaxFields == 3
\* Entries of the downloaded archive.
MaxEntries == 3

\* ---------------------------------------------------------------- numbers
RECURSIVE Norm(_)
Norm(d) ==
  IF d.m = 0 THEN [m |-> 0, e |-> 0]
  ELSE IF d.m % 2 = 0 THEN Norm([m |-> d.m \div 2, e |-> d.e + 1])
  ELSE d

Dy(m, e) == Norm([m |-> m, e |-> e])

\* The missing marker pandas fills absent cells with.
NaN == [nan |-> TRUE]

\* ---------------------------------------------------------------- names
position_lat == <<"position", "lat">>
position_long == <<"position", "long">>
heart_rate == <<"heart", "rate">>
unknown_87 == <<"unknown", "87">>
enhanced_unknown == <<"enhanced", "unknown">>
record == <<"record">>
session == <<"session">>

\* Mutant of Find: matches the marker only at the start of the name.
FindAtStart(name, sub) ==
  IF Len(name) > 0 /\ name[1] = sub THEN 0 ELSE -1

\* str.find: the index of the first occurrence of word sub in name, or -1.
Find(name, sub) ==
  IF \E i \in 1..Len(name) : name[i] = sub
  THEN (CHOOSE i \in 1..Len(name) :
          /\ name[i] = sub
          /\ \A j \in 1..(i - 1) : name[j] # sub) - 1
  ELSE -1

\* x in list
InList(x, list) == \E i \in 1..Len(list) : list[i] = x

\* ---------------------------------------------------------------- inputs
Field(n, v) == [name |-> n, value |-> v]

FieldChoices ==
  { Field(position_lat, Dy(1, 31)), Field(position_lat, Dy(1, 30)),
    Field(position_long, Dy(0, 0)), Field(heart_rate, Dy(142, 0)),
    Field(unknown_87, Dy(7, 0)), Field(enhanced_unknown, Dy(9, 0)) }

SeqsUpTo(S, n) == UNION { [1..k -> S] : k \in 0..n }

\* A FitDataMessage, and any other frame of the stream (header, definition
\* message, CRC), which has neither name nor fields.
DataFrame(n, fs) == [data |-> TRUE, name |-> n, fields |-> fs]
OtherFrame == [data |-> FALSE, name |-> <<>>, fields |-> <<>>]

RecordFrames == { DataFrame(record, fs) : fs \in SeqsUpTo(FieldChoices, MaxFields) }

\* What the reader may yield: a record frame, a data frame of another name
\* (one of them named like a field), or a frame that is no data message.
Frames ==
  RecordFrames
  \cup { DataFrame(session, <<Field(heart_rate, Dy(150, 0))>>),
         DataFrame(position_lat, <<>>),
         OtherFrame }

\* The number of fields of a sequence of frames.
RECURSIVE TotalFields(_)
TotalFields(fs) ==
  IF fs = <<>> THEN 0 ELSE Len(Head(fs).fields) + TotalFields(Tail(fs))

\* ---------------------------------------------------------------- fitdecode
\* FitDataMessage.get_value(name): the value of the first field of the frame
\* that has this name (idx = 0).
get_value(frame, name) ==
  frame.fields[CHOOSE i \in 1..Len(frame.fields) :
                 /\ frame.fields[i].name = name
                 /\ \A j \in 1..(i - 1) : frame.fields[j].name # name].value

\* ---------------------------------------------------------------- dict
\* A dict is the sequence of its <<key, value>> items in insertion order.
DictHas(d, k) == \E i \in 1..Len(d) : d[i][1] = k
DictGet(d, k) == d[CHOOSE i \in 1..Len(d) : d[i][1] = k][2]
DictSet(d, k, v) ==
  IF DictHas(d, k)
  THEN [i \in 1..Len(d) |-> IF d[i][1] = k THEN <<k, v>> ELSE d[i]]
  ELSE Append(d, <<k, v>>)
DictKeys(d) == [i \in 1..Len(d) |-> d[i][1]]

\* ---------------------------------------------------------------- DataFrame
\* A DataFrame is its column labels, in order, and its rows; a row is the
\* sequence of its cells, aligned with the columns.
EmptyFrame == [columns |-> <<>>, rows |-> <<>>]

ColumnIndex(df, c) == CHOOSE k \in 1..Len(df.columns) : df.columns[k] = c
HasColumn(df, c) == InList(c, df.columns)
Cell(df, r, c) == df.rows[r][ColumnIndex(df, c)]

\* Mutant of ConcatRow: a key the row lacks keeps the value of the row
\* before (row_dict is not reset between record frames).
ConcatRowCarried(df, row_dict) ==
  LET keys == [i \in 1..Len(row_dict) |-> row_dict[i][1]]
      newcols == SelectSeq(keys, LAMBDA k : ~InList(k, df.columns))
      cols == df.columns \o newcols
      pad == [j \in 1..Len(newcols) |-> NaN]
      old == [i \in 1..Len(df.rows) |-> df.rows[i] \o pad]
      row == [k \in 1..Len(cols) |->
                IF \E i \in 1..Len(row_dict) : row_dict[i][1] = cols[k]
                THEN row_dict[CHOOSE i \in 1..Len(row_dict) : row_dict[i][1] = cols[k]][2]
                ELSE IF old = <<>> THEN NaN ELSE old[Len(old)][k]]
  IN [columns |-> cols, rows |-> Append(old, row)]

\* pd.concat([df, pd.DataFrame([row_dict])], ignore_index=True): the columns
\* are df's followed by the keys of row_dict that df lacks, in the order of
\* the dict; a cell with no value on its side is NaN.
ConcatRow(df, row_dict) ==
  LET keys == DictKeys(row_dict)
      newcols == SelectSeq(keys, LAMBDA k : ~InList(k, df.columns))
      cols == df.columns \o newcols
      pad == [j \in 1..Len(newcols) |-> NaN]
      row == [k \in 1..Len(cols) |->
                IF DictHas(row_dict, cols[k]) THEN DictGet(row_dict, cols[k])
                ELSE NaN]
  IN [columns |-> cols,
      rows |-> Append([i \in 1..Len(df.rows) |-> df.rows[i] \o pad], row)]

\* ---------------------------------------------------------------- fit_to_pandas
\* check_list = good_list = []: both names are bound to one list object.
check_list == good_list

\* The local state of one call, as a record.
Locals == [good_list |-> good_list, list_check |-> list_check,
           df_activity |-> df_activity, err |-> err]

\* Lines 135-139: the tally of frame names.  list_check.get(name) is None
\* when the name is in the list but not in the dict, and None + 1 raises.
TallyStep(loc, frame) ==
  IF ~InList(frame.name, loc.good_list)
  THEN [loc EXCEPT !.good_list = Append(@, frame.name),
                   !.list_check = DictSet(@, frame.name, 1)]
  ELSE IF ~DictHas(loc.list_check, frame.name)
       THEN [loc EXCEPT !.err = "TypeError"]
       ELSE [loc EXCEPT !.list_check =
               DictSet(@, frame.name, DictGet(@, frame.name) + 1)]

\* Lines 145-152: the loop over the fields of a record frame, from field i
\* on; acc is [good_list, row_dict].
RECURSIVE FieldLoop(_, _, _)
FieldLoop(acc, frame, i) ==
  IF i > Len(frame.fields) THEN acc
  ELSE LET field == frame.fields[i] IN
       IF Find(field.name, "unknown") < 0
       THEN FieldLoop(
              [good_list |->
                 IF ~InList(field.name, acc.good_list)
                    /\ Find(field.name, "unknown") < 0
                 THEN Append(acc.good_list, field.name)
                 ELSE acc.good_list,
               row_dict |->
                 DictSet(acc.row_dict, field.name, get_value(frame, field.name))],
              frame, i + 1)
       ELSE FieldLoop(acc, frame, i + 1)

\* Lines 143-157: a record frame becomes one row of the table.
RecordStep(loc, frame) ==
  LET acc == FieldLoop([good_list |-> loc.good_list, row_dict |-> <<>>], frame, 1)
  IN [loc EXCEPT !.good_list = acc.good_list,
                 !.df_activity = ConcatRow(@, acc.row_dict)]

\* Mutant of FrameStep: every data frame becomes a row, whatever its name.
FrameStepAnyName(loc, frame) ==
  IF ~frame.data THEN loc
  ELSE LET t == TallyStep(loc, frame) IN
       IF t.err # "none" THEN t ELSE RecordStep(t, frame)

\* Lines 133-157: the body of the loop over the frames.
FrameStep(loc, frame) ==
  IF ~frame.data THEN loc
  ELSE LET t == TallyStep(loc, frame) IN
       IF t.err # "none" THEN t
       ELSE IF frame.name = record THEN RecordStep(t, frame)
       ELSE t

\* Mutant of Rescale: the rescaling applied twice.
RescaleTwice(x) ==
  IF x = NaN THEN NaN ELSE Norm([m |-> x.m * 360 * 360, e |-> x.e - 64])

\* Line 162: lambda x: x / ((2**32) / 360), exact; NaN / c is NaN.
Rescale(x) ==
  IF x = NaN THEN NaN ELSE Norm([m |-> x.m * 360, e |-> x.e - 32])

\* Line 161: df[column] = df[column].apply(f)
ApplyColumn(df, column) ==
  LET k == ColumnIndex(df, column) IN
  [df EXCEPT !.rows =
     [i \in 1..Len(df.rows) |-> [df.rows[i] EXCEPT ![k] = Rescale(@)]]]

\* Lines 160-163: the loop over the two position columns, from column i on;
\* df[column] raises KeyError when the table has no such column.
NormalizedColumns == <<position_lat, position_long>>

\* Mutant of UpdateLongLat: a column the table lacks is skipped.
RECURSIVE UpdateLongLatIfPresent(_, _)
UpdateLongLatIfPresent(loc, i) ==
  IF i > Len(NormalizedColumns) THEN loc
  ELSE IF ~HasColumn(loc.df_activity, NormalizedColumns[i])
       THEN UpdateLongLatIfPresent(loc, i + 1)
       ELSE UpdateLongLatIfPresent(
              [loc EXCEPT !.df_activity = ApplyColumn(@, NormalizedColumns[i])],
              i + 1)

RECURSIVE UpdateLongLat(_, _)
UpdateLongLat(loc, i) ==
  IF i > Len(NormalizedColumns) THEN loc
  ELSE IF ~HasColumn(loc.df_activity, NormalizedColumns[i])
       THEN [loc EXCEPT !.err = "KeyError"]
       ELSE UpdateLongLat(
              [loc EXCEPT !.df_activity = ApplyColumn(@, NormalizedColumns[i])],
              i + 1)

\* ---------------------------------------------------------------- one call
NoTable == "none"

InitLocals ==
  /\ frames = <<>>
  /\ good_list = <<>>
  /\ list_check = <<>>
  /\ df_activity = EmptyFrame
  /\ pc = "reading"
  /\ err = "none"
  /\ result = NoTable

InitPushIdle ==
  /\ entries = 1
  /\ entry = 1
  /\ decoded = <<>>
  /\ uploads = <<>>
  /\ ppc = "decode"

Init == InitLocals /\ InitPushIdle

\* Lines 131-157: the reader yields the next frame and the loop body runs.
ReadFrame ==
  /\ pc = "reading"
  /\ Len(frames) < MaxFrames
  /\ \E f \in Frames :
       LET loc == FrameStep(Locals, f) IN
       /\ TotalFields(frames) + Len(f.fields) <= MaxFields
       /\ frames' = Append(frames, f)
       /\ good_list' = loc.good_list
       /\ list_check' = loc.list_check
       /\ df_activity' = loc.df_activity
       /\ err' = loc.err
       /\ pc' = IF loc.err = "none" THEN "reading" ELSE "raised"
  /\ UNCHANGED <<result, pushVars>>

\* Line 131: the reader finds the stream malformed or truncated and raises.
ReaderRaises ==
  /\ pc = "reading"
  /\ Len(frames) < MaxFrames
  /\ err' = "FitError"
  /\ pc' = "raised"
  /\ UNCHANGED <<frames, good_list, list_check, df_activity, result, pushVars>>

\* Lines 159-165: the stream ends, the position columns are rescaled and the
\* table is returned.
EndOfStream ==
  /\ pc = "reading"
  /\ LET loc == UpdateLongLat(Locals, 1) IN
     /\ df_activity' = loc.df_activity
     /\ err' = loc.err
     /\ pc' = IF loc.err = "none" THEN "returned" ELSE "raised"
     /\ result' = IF loc.err = "none" THEN loc.df_activity ELSE NoTable
  /\ UNCHANGED <<frames, good_list, list_check, pushVars>>

Next == ReadFrame \/ ReaderRaises \/ EndOfStream

Spec == Init /\ [][Next]_vars

\* ---------------------------------------------------------------- push
\* The whole of fit_to_pandas on one stream; truncated: the reader raises
\* after the last of these frames instead of ending.
NewLocals == [good_list |-> <<>>, list_check |-> <<>>,
              df_activity |-> EmptyFrame, err |-> "none"]

RECURSIVE FrameLoop(_, _)
FrameLoop(loc, fs) ==
  IF fs = <<>> \/ loc.err # "none" THEN loc
  ELSE FrameLoop(FrameStep(loc, Head(fs)), Tail(fs))

fit_to_pandas(stream, truncated) ==
  LET loc == FrameLoop(NewLocals, stream) IN
  IF loc.err # "none" THEN loc
  ELSE IF truncated THEN [loc EXCEPT !.err = "FitError"]
  ELSE UpdateLongLat(loc, 1)

\* The streams an archive entry may hold.
ArchiveStreams ==
  LET lat == Field(position_lat, Dy(1, 31))
      long == Field(position_long, Dy(0, 0))
      hr == Field(heart_rate, Dy(142, 0))
  IN { <<>>,
       <<DataFrame(record, <<lat, long>>)>>,
       <<DataFrame(record, <<hr>>)>>,
       <<OtherFrame, DataFrame(record, <<long, lat, hr>>)>>,
       <<DataFrame(record, <<lat, long>>), DataFrame(record, <<hr>>)>>,
       <<DataFrame(record, <<lat, long>>), DataFrame(position_lat, <<>>)>> }

InitPush ==
  /\ InitLocals
  /\ entries \in 0..MaxEntries
  /\ entry = 1
  /\ decoded = <<>>
  /\ uploads = <<>>
  /\ ppc = "loop"

\* Lines 110-112: the next entry of the archive is read and decoded.
Decode ==
  /\ ppc = "loop"
  /\ entry <= entries
  /\ \E stream \in ArchiveStreams, truncated \in BOOLEAN :
       LET loc == fit_to_pandas(stream, truncated) IN
       /\ frames' = stream
       /\ good_list' = loc.good_list
       /\ list_check' = loc.list_check
       /\ df_activity' = loc.df_activity
       /\ err' = loc.err
       /\ pc' = IF loc.err = "none" THEN "returned" ELSE "raised"
       /\ result' = IF loc.err = "none" THEN loc.df_activity ELSE NoTable
       /\ decoded' = IF loc.err = "none"
                     THEN Append(decoded, [entry |-> entry, df |-> loc.df_activity])
                     ELSE decoded
       /\ ppc' = IF loc.err = "none" THEN "upload" ELSE "raised"
  /\ UNCHANGED <<entries, entry, uploads>>

\* Lines 113-119: the table is uploaded, and the loop goes on to the next
\* entry; an upload that raises ends push.
UploadSucceeds ==
  /\ ppc = "upload"
  /\ uploads' = Append(uploads, [entry |-> entry, df |-> result])
  /\ entry' = entry + 1
  /\ ppc' = "loop"
  /\ UNCHANGED <<fitVars, entries, decoded>>

\* Mutant of UploadRaises: the failure is swallowed and the loop goes on.
UploadRaisesSwallowed ==
  /\ ppc = "upload"
  /\ entry' = entry + 1
  /\ ppc' = "loop"
  /\ UNCHANGED <<fitVars, entries, decoded, uploads>>

UploadRaises ==
  /\ ppc = "upload"
  /\ ppc' = "raised"
  /\ UNCHANGED <<fitVars, entries, entry, decoded, uploads>>

Upload == UploadSucceeds \/ UploadRaises

\* Line 110: the entries are exhausted and push returns.
Finish ==
  /\ ppc = "loop"
  /\ entry > entries
  /\ ppc' = "done"
  /\ UNCHANGED <<fitVars, entries, entry, decoded, uploads>>

NextPush == Decode \/ Upload \/ Finish

SpecPush == InitPush /\ [][NextPush]_vars

\* ---------------------------------------------------------------- the input, as the claims read it
IsRecord(f) == f.data /\ f.name = record
Records(fs) == SelectSeq(fs, IsRecord)

\* A name is a placeholder when the word "unknown" occurs anywhere in it.
Usable(name) == \A i \in 1..Len(name) : name[i] # "unknown"
UsableNames(frame) ==
  { frame.fields[i].name : i \in { k \in 1..Len(frame.fields) : Usable(frame.fields[k].name) } }
FieldValues(frame, name) ==
  { frame.fields[i].value : i \in { k \in 1..Len(frame.fields) : frame.fields[k].name = name } }

RECURSIVE FieldNames(_)
FieldNames(recs) ==
  IF recs = <<>> THEN <<>>
  ELSE [i \in 1..Len(Head(recs).fields) |-> Head(recs).fields[i].name]
       \o FieldNames(Tail(recs))

\* The elements of a sequence, each kept at its first occurrence.
FirstSeen(seq) ==
  LET keep == { i \in 1..Len(seq) : \A j \in 1..(i - 1) : seq[j] # seq[i] }
      RECURSIVE Pick(_)
      Pick(i) == IF i > Len(seq) THEN <<>>
                 ELSE IF i \in keep THEN <<seq[i]>> \o Pick(i + 1)
                 ELSE Pick(i + 1)
  IN Pick(1)

ExpectedColumns(fs) == FirstSeen(SelectSeq(FieldNames(Records(fs)), Usable))

Returned == pc = "returned"
Raised == pc = "raised"

\* ---------------------------------------------------------------- claims
\* C1: a stream without any record frame (and no reader failure) makes
\* fit_to_pandas return the table with no rows and no columns.
C1_NoRecordsReturnsEmptyTable ==
  (pc # "reading" /\ Records(frames) = <<>> /\ err # "FitError")
    => (Returned /\ result = EmptyFrame)

\* C2: the returned table has one row per record frame, in stream order: row
\* k holds values in exactly the columns named by the usable fields of the
\* k-th record frame; the same holds of the table after every frame read.
RowsMatchRecords(df, fs) ==
  /\ Len(df.rows) = Len(Records(fs))
  /\ \A k \in 1..Len(df.rows) :
       /\ Len(df.rows[k]) = Len(df.columns)
       /\ { df.columns[c] : c \in { x \in 1..Len(df.columns) : df.rows[k][x] # NaN } }
            = UsableNames(Records(fs)[k])

C2_OneRowPerRecordFrame ==
  /\ Returned => RowsMatchRecords(result, frames)
  /\ pc = "reading" => RowsMatchRecords(df_activity, frames)

\* a table of two rows was returned, one of them built from a record frame
\* without any usable field
C2_Witness ==
  /\ Returned
  /\ \E k \in 1..Len(Records(frames)) : UsableNames(Records(frames)[k]) = {}
  /\ Len(result.rows) = 2

\* C3: the columns of the returned table are the usable field names of the
\* record frames in first-seen order; no placeholder name is a column, and
\* the fields of other frames add none.
C3_ColumnsAreFirstSeenUsableNames ==
  /\ Returned => result.columns = ExpectedColumns(frames)
  /\ pc = "reading" => df_activity.columns = ExpectedColumns(frames)
  /\ \A c \in 1..Len(df_activity.columns) : Usable(df_activity.columns[c])

\* a two-column table was returned from two record frames that differ in
\* their usable names, one of them carrying a placeholder field with the
\* marker inside its name
C3_Witness ==
  /\ Returned
  /\ \E k \in 1..Len(Records(frames)) :
       \E i \in 1..Len(Records(frames)[k].fields) :
         Records(frames)[k].fields[i].name = enhanced_unknown
  /\ Len(Records(frames)) = 2
  /\ Len(result.columns) = 2
  /\ UsableNames(Records(frames)[1]) # UsableNames(Records(frames)[2])

\* C4: when the stream holds a record frame but no record frame carries a
\* usable position_lat field, or none a position_long field, no table is
\* returned: the call ends raising, with the normalizer's KeyError when the
\* frame loop ran to its end; a failure raised by the reader also ends the
\* call with no table.
CarriesUsable(fs, name) ==
  \E k \in 1..Len(Records(fs)) : name \in UsableNames(Records(fs)[k])

C5_AbsentFieldIsMissing ==
  Returned =>
    \A j \in 1..Len(result.rows) :
      \A c \in 1..Len(result.columns) :
        result.columns[c] \notin UsableNames(Records(frames)[j])
          => result.rows[j][c] = NaN

\* a table was returned in which a position column, carried by the first
\* record frame, is missing from the second
C5_Witness ==
  /\ Returned
  /\ Len(Records(frames)) = 2
  /\ position_lat \in UsableNames(Records(frames)[1])
  /\ position_lat \notin UsableNames(Records(frames)[2])
  /\ Cell(result, 2, position_lat) = NaN
  /\ Cell(result, 1, position_lat) # NaN

\* C6: every cell of the returned table that is not missing holds, in the
\* two position columns, v * 360 / 2^32 for a raw value v of that name in
\* the row's record frame (2^31 gives 180, 0 gives 0), and in every other
\* column a raw value of that name, unchanged.
IsDegreesOf(x, v) ==
  Norm([m |-> x.m, e |-> x.e + 32]) = Norm([m |-> v.m * 360, e |-> v.e])

C6_PositionsRescaledOnce ==
  Returned =>
    \A r \in 1..Len(result.rows) :
      \A c \in 1..Len(result.columns) :
        LET x == result.rows[r][c]
            name == result.columns[c]
            raws == FieldValues(Records(frames)[r], name)
        IN x # NaN =>
             IF name \in {position_lat, position_long}
             THEN /\ \E v \in raws : IsDegreesOf(x, v)
                  /\ Dy(1, 31) \in raws /\ Cardinality(raws) = 1 => x = Dy(180, 0)
                  /\ raws = {Dy(0, 0)} => x = Dy(0, 0)
             ELSE x \in raws

\* a table was returned with 180 degrees of latitude from the raw 2^31, 0
\* degrees of longitude from the raw 0 and a column that is not rescaled
C6_Witness ==
  /\ Returned
  /\ Len(result.rows) = 1
  /\ FieldValues(Records(frames)[1], position_lat) = {Dy(1, 31)}
  /\ Cell(result, 1, position_lat) = Dy(180, 0)
  /\ Cell(result, 1, position_long) = Dy(0, 0)
  /\ HasColumn(result, heart_rate)
  /\ Cell(result, 1, heart_rate) = Dy(142, 0)

\* C7: the tally has no effect on the outcome.  For every stream of frames
\* the tally update of each data frame succeeds and counts one more
\* occurrence of the frame's name, and the call ends as it would with lines
\* 135-139 removed: with the same table returned, or with a failure.
WithoutTallyStep(loc, frame) ==
  IF IsRecord(frame) THEN RecordStep(loc, frame) ELSE loc

RECURSIVE WithoutTallyLoop(_, _)
WithoutTallyLoop(loc, fs) ==
  IF fs = <<>> THEN loc
  ELSE WithoutTallyLoop(WithoutTallyStep(loc, Head(fs)), Tail(fs))

OutcomeOf(loc) ==
  IF loc.err = "none" THEN [ok |-> TRUE, table |-> loc.df_activity]
  ELSE [ok |-> FALSE]

WithoutTallyOutcome(fs) ==
  OutcomeOf(UpdateLongLat(
    WithoutTallyLoop([good_list |-> <<>>, list_check |-> <<>>,
                      df_activity |-> EmptyFrame, err |-> "none"], fs), 1))

Occurrences(fs, name) ==
  Cardinality({ i \in 1..Len(fs) : fs[i].data /\ fs[i].name = name })

C7_TallyHasNoEffect ==
  /\ err # "TypeError"
  /\ \A i \in 1..Len(frames) :
       frames[i].data =>
         /\ DictHas(list_check, frames[i].name)
         /\ DictGet(list_check, frames[i].name) = Occurrences(frames, frames[i].name)
  /\ (pc # "reading" /\ err # "FitError") =>
       (IF Returned THEN [ok |-> TRUE, table |-> result] ELSE [ok |-> FALSE])
         = WithoutTallyOutcome(frames)

\* C8: when a record frame holds a usable field name more than once, the
\* row's cell of that name holds the value of the last field of that name.
LastValue(frame, name) ==
  frame.fields[CHOOSE i \in 1..Len(frame.fields) :
                 /\ frame.fields[i].name = name
                 /\ \A j \in (i + 1)..Len(frame.fields) : frame.fields[j].name # name].value

C8_LastDuplicateWins ==
  pc = "reading" =>
    \A k \in 1..Len(df_activity.rows) :
      \A name \in UsableNames(Records(frames)[k]) :
        Cell(df_activity, k, name) = LastValue(Records(frames)[k], name)

\* C9: after every frame good_list is the sequence of the distinct usable
\* field names seen so far in record frames, in first-seen order, and so
\* holds no frame name that is not a field name; when the frame loop has
\* ended it is the column sequence of the table.
C9_RegistryIsFirstSeenFieldNames ==
  /\ err \notin {"TypeError", "FitError"} => good_list = ExpectedColumns(frames)
  /\ \A i \in 1..Len(good_list) :
       \E k \in 1..Len(Records(frames)) : good_list[i] \in UsableNames(Records(frames)[k])
  /\ err \in {"none", "KeyError"} => good_list = df_activity.columns

\* C10 as stated: whenever push is not between the decoding of an entry and
\* its upload, as many tables were uploaded as entries were decoded.
C10_UploadsEqualDecoded ==
  ppc \in {"loop", "done", "raised"} => Len(uploads) = Len(decoded)

\* C10, amended: entries are handled in archive order, each decoded and its
\* table uploaded before the next is decoded; the uploads are the decoded
\* tables in order, all of them or all but the last, which is the one whose
\* upload is pending or has raised; a failure ends push with the earlier
\* uploads kept and no later entry decoded or uploaded.
C10_SequentialDecodeThenUpload ==
  /\ \A i \in 1..Len(decoded) : decoded[i].entry = i
  /\ Len(uploads) = entry - 1
  /\ \A i \in 1..Len(uploads) : uploads[i] = decoded[i]
  /\ Len(decoded) \in {Len(uploads), Len(uploads) + 1}
  /\ ppc = "upload" => (Len(decoded) = Len(uploads) + 1 /\ result = decoded[entry].df)
  /\ ppc \in {"loop", "done"} => Len(decoded) = Len(uploads)
  /\ ppc = "done" => Len(uploads) = entries
  /\ ppc = "raised" => (entry <= entries /\ Len(decoded) <= entry)

\* the upload of the second entry raised after the first entry was uploaded,
\* and the third entry was never decoded
C10_Witness ==
  /\ ppc = "raised"
  /\ entries = 3
  /\ entry = 2
  /\ Len(decoded) = 2
  /\ Len(uploads) = 1

====
